---- MODULE Spec2Model ----
(***************************************************************************)
(* Mission state machine and simulation worker of the drone survey          *)
(* backend.  The database, the Redis mission cache and the Bull job queue   *)
(* are the shared state; every `await` on one of them is one atomic step,   *)
(* so API handlers and the queue worker interleave exactly where the        *)
(* Node.js event loop lets them interleave.  missionQueue.process is        *)
(* registered without a concurrency argument, so one job runs at a time.    *)
(* Requests for a mission id that does not exist end in 'Mission not        *)
(* found' without touching anything and are left out.                       *)
(*                                                                         *)
(* Units: battery is kept in hundredths of a percent (100% = 10000), the    *)
(* waypoints lie on a line and coordinates/distances are whole metres,      *)
(* progress is an exact fraction <<numerator, denominator>> of percent.     *)
(***************************************************************************)
EXTENDS Integers, Sequences, FiniteSets, TLC

(* ------------------------------ bounds -------------------------------- *)
NumMissions == 2
NumDrones == 2
InitialDrones == 1
NumClients == 1
NumStarters == 2
MaxWaypoints == 3
MaxSteps == 2
MaxRequests == 3
MaxTicks == 2
MaxPath == 30
SignificandBits == 3
NumSurveyors == 2

(* ------------------------- program constants -------------------------- *)
Speed == 10
BatteryFull == 10000
BatteryDrainRate == 10
LowBattery == 1000
ChargeBattery == 2000
JobAttempts == 3
AmbientDrainRate == 5
AmbientFloor == 2000
AmbientRecharge == 2500
AmbientMove == 11
DefaultOverlap == 70
MetersPerDegree == 111320
DegreeUnits == 111320
PerimeterInset == 10

Missions == 1..NumMissions
Drones == 1..NumDrones
Clients == 1..NumClients
Starters == 1..NumStarters
Handlers == Clients \cup Starters
Surveyors == 1..NumSurveyors

Ops == {"start", "pause", "resume", "abort"}

(* Batteries a drone can have when a mission starts: a fresh drone, and     *)
(* one whose battery was set through PUT /fleet/:id just above a threshold. *)
BatteryInputs == {BatteryFull, ChargeBattery + 1, LowBattery + 1}

(* Batteries PUT /fleet/:id accepts (0..100); the ones tried here. *)
UpdateBatteries == {0, BatteryFull}

(* Waypoint counts the path planner returns; 0 is an empty path. *)
EmptyPath == 0
PathSizes == 2..MaxWaypoints
FleetPath == 2

(* ------------------------- exact arithmetic --------------------------- *)
RECURSIVE Gcd(_, _)
Gcd(a, b) == IF b = 0 THEN a ELSE Gcd(b, a % b)

Frac(num, den) == LET g == Gcd(num, den) IN IF g = 0 THEN <<0, 1>> ELSE <<num \div g, den \div g>>
FracLeq(p, q) == p[1] * q[2] <= q[1] * p[2]
Percent(k) == <<k, 1>>

Max(a, b) == IF a >= b THEN a ELSE b
Abs(a) == IF a >= 0 THEN a ELSE 0 - a
Ceil(a, b) == (a + b - 1) \div b

(* ---------------------------- flight path ----------------------------- *)
(* Waypoint i of every mission lies at WaypointX(i) metres along a line;    *)
(* segments alternate between MaxSteps seconds and one second of flight.    *)
SegmentLength(i) == Speed * (IF i % 2 = 0 THEN MaxSteps ELSE 1)

RECURSIVE WaypointX(_)
WaypointX(i) == IF i = 0 THEN 0 ELSE WaypointX(i - 1) + SegmentLength(i - 1)

calculateDistance(from, to) == Abs(to - from)

interpolatePosition(from, to, num, den) == from + ((to - from) * num) \div den

PathLength(n) == WaypointX(n - 1)

(* ------------------------------- state -------------------------------- *)
VARIABLES
    mission,      \* mission table: id -> record
    reached,      \* waypoint table: id -> set of sequence numbers marked reached
    drone,        \* drone table: id -> record
    cache,        \* Redis key mission:<id> -> cached mission, or NoSnap
    queue,        \* Bull queue 'mission-simulation': sequence of waiting jobs
    worker,       \* the queue's single processor and its locals
    client,       \* API requests in flight
    requests,     \* number of control requests issued so far
    issued,       \* history: id -> operations ever requested or run on it
    completions,  \* history: id -> number of completion outcomes
    waypoints,    \* waypoint table: id -> number of waypoint rows of the mission
    creator,      \* the createMission request in flight
    simulator,    \* ambient drone simulator: ticks so far, pending write per drone
    report,       \* survey report table: mission id -> the reports stored for it
    survey,       \* GET /surveys/:missionId requests in flight
    telemetry,    \* history: id -> (segment, step) of the last event of each kind
    planner       \* a createMission call seen with its polygon, flight path and rows

vars == <<mission, reached, drone, cache, queue, worker, client, requests, issued, completions,
          waypoints, creator, simulator, report, survey, telemetry, planner>>

NoSnap == [status |-> "NONE", currentWaypoint |-> 0, distanceCovered |-> 0, startTime |-> 0]

NoMission == [status |-> "NONE", droneId |-> 0, totalWaypoints |-> 0, progress |-> Percent(0),
              currentWaypoint |-> 0, distanceCovered |-> 0, startTime |-> 0,
              ended |-> FALSE]

IdleClient == [op |-> "none", m |-> 0, pc |-> "idle", snap |-> NoSnap]

IdleWorker == [pc |-> "idle", m |-> 0, attempt |-> 0, call |-> "none", snap |-> NoSnap,
               n |-> 0, idx |-> 0, total |-> 0, step |-> 0, newBattery |-> 0]

NoDrone == [status |-> "NONE", battery |-> 0, position |-> 0]

IdleCreator == [pc |-> "idle", m |-> 0, d |-> 0, n |-> 0, error |-> "none"]

NoWrite == [pending |-> FALSE, battery |-> 0, position |-> 0]

NoMetrics == [distance |-> 0, waypointsTotal |-> 0, waypointsReached |-> 0, batteryUsed |-> 0]

IdleSurvey == [pc |-> "idle", m |-> 0, metrics |-> NoMetrics, result |-> <<>>, error |-> "none"]

(* No event emitted yet. *)
NoTick == <<0 - 1, 0 - 1>>

NoOverlap == [given |-> FALSE, value |-> 0]

NoStored == [altitude |-> 0, overlapPercent |-> 0, totalWaypoints |-> 0]

IdlePlanner == [pc |-> "idle", polygon |-> <<>>, pattern |-> "none", altitude |-> 0,
                overlapPercent |-> NoOverlap, spacing |-> 0, pass |-> 0, currentLat |-> 0,
                direction |-> 0, waypoints |-> <<>>, grid1 |-> <<>>, path |-> <<>>,
                stored |-> NoStored, rows |-> <<>>, error |-> "none",
                from |-> <<>>, to |-> <<>>, progress |-> <<0, 1>>, position |-> <<>>]

(* The part of a mission row that callers of getMissionById read. *)
Snapshot(m) == [status |-> mission[m].status,
                currentWaypoint |-> mission[m].currentWaypoint,
                distanceCovered |-> mission[m].distanceCovered,
                startTime |-> mission[m].startTime]

Init ==
    /\ mission = [m \in Missions |-> NoMission]
    /\ reached = [m \in Missions |-> {}]
    /\ drone \in [Drones -> [status : {"AVAILABLE"}, battery : BatteryInputs, position : {0}]
                              \cup {NoDrone}]
    /\ \A d \in Drones : drone[d] = NoDrone <=> d > InitialDrones
    /\ cache = [m \in Missions |-> NoSnap]
    /\ queue = <<>>
    /\ worker = IdleWorker
    /\ client = [c \in Handlers |-> IdleClient]
    /\ requests = 0
    /\ issued = [m \in Missions |-> {}]
    /\ completions = [m \in Missions |-> 0]
    /\ waypoints = [m \in Missions |-> 0]
    /\ creator = IdleCreator
    /\ simulator = [ticks |-> 0, write |-> [d \in Drones |-> NoWrite]]
    /\ report = [m \in Missions |-> <<>>]
    /\ survey = [s \in Surveyors |-> IdleSurvey]
    /\ telemetry = [m \in Missions |-> [position |-> NoTick, progress |-> NoTick]]
    /\ planner = IdlePlanner

(* ------------------------ mission.service.ts --------------------------- *)
(* The status preconditions of the four control operations. *)
startMissionAllowed(status) == status \in {"PLANNED", "PAUSED"}
pauseMissionAllowed(status) == status = "ACTIVE"
resumeMissionAllowed(status) == status = "PAUSED"
abortMissionAllowed(status) == status \notin {"COMPLETED", "ABORTED"}

Allowed(op, status) ==
    CASE op = "start" -> startMissionAllowed(status)
      [] op = "pause" -> pauseMissionAllowed(status)
      [] op = "resume" -> resumeMissionAllowed(status)
      [] op = "abort" -> abortMissionAllowed(status)

(* Status written by a control operation. *)
Target(op) ==
    CASE op = "start" -> "ACTIVE"
      [] op = "pause" -> "PAUSED"
      [] op = "resume" -> "ACTIVE"
      [] op = "abort" -> "ABORTED"

(* Drone status written by start and abort before the mission row. *)
DroneTarget(op) == IF op = "start" THEN "IN_MISSION" ELSE "AVAILABLE"

(* Variant of createMissionError that does not look at the drone's status. *)
createMissionErrorNoStatus(d, n) ==
    CASE drone[d].status = "NONE" -> "Drone not found"
      [] drone[d].status # "NONE" /\ n = EmptyPath -> "Failed to generate flight path"
      [] OTHER -> "none"

(* createMission, the checks before its first write: the drone read from the *)
(* database must exist and be AVAILABLE, the planned path must not be empty. *)
createMissionError(d, n) ==
    CASE drone[d].status = "NONE" -> "Drone not found"
      [] drone[d].status \notin {"NONE", "AVAILABLE"} -> "Drone is not available"
      [] drone[d].status = "AVAILABLE" /\ n = EmptyPath -> "Failed to generate flight path"
      [] OTHER -> "none"

(* The id the database gives the next mission row. *)
NextMissionId == CHOOSE m \in Missions :
                    mission[m].status = "NONE" /\ \A k \in Missions : k < m => mission[k].status # "NONE"

(* POST /missions for drone d with a path of n waypoints: the drone is read  *)
(* and the checks pass; the request goes on to its writes.                   *)
createMission(d, n) ==
    /\ creator.pc = "idle"
    /\ \E m \in Missions : mission[m].status = "NONE"
    /\ createMissionError(d, n) = "none"
    /\ creator' = [IdleCreator EXCEPT !.pc = "insert", !.d = d, !.n = n]
    /\ UNCHANGED <<mission, reached, drone, cache, queue, worker, client, requests, issued,
                   completions, waypoints, simulator,
                   report, survey, telemetry,
                   planner>>

(* POST /missions: one of the checks throws; nothing has been written. *)
createMissionFails(d, n) ==
    /\ creator.pc = "idle"
    /\ createMissionError(d, n) # "none"
    /\ creator' = [IdleCreator EXCEPT !.pc = "failed", !.d = d, !.n = n,
                                      !.error = createMissionError(d, n)]
    /\ UNCHANGED <<mission, reached, drone, cache, queue, worker, client, requests, issued,
                   completions, waypoints, simulator,
                   report, survey, telemetry,
                   planner>>

(* The route replies 400 with the error. *)
createMissionReply ==
    /\ creator.pc = "failed"
    /\ creator' = IdleCreator
    /\ UNCHANGED <<mission, reached, drone, cache, queue, worker, client, requests, issued,
                   completions, waypoints, simulator,
                   report, survey, telemetry,
                   planner>>

(* createMission: prisma.mission.create, status PLANNED, totalWaypoints = n. *)
createMissionRow ==
    /\ creator.pc = "insert"
    /\ mission' = [mission EXCEPT ![NextMissionId] =
           [status |-> "PLANNED", droneId |-> creator.d, totalWaypoints |-> creator.n,
            progress |-> Percent(0), currentWaypoint |-> 0, distanceCovered |-> 0,
            startTime |-> 0, ended |-> FALSE]]
    /\ creator' = [creator EXCEPT !.pc = "waypoints", !.m = NextMissionId]
    /\ UNCHANGED <<reached, drone, cache, queue, worker, client, requests, issued, completions,
                   waypoints, simulator,
                   report, survey, telemetry,
                   planner>>

(* createMission: prisma.waypoint.createMany, all rows with reached = false;  *)
(* the missions:* cache pattern matches no mission:<id> key; return.          *)
createWaypoints ==
    /\ creator.pc = "waypoints"
    /\ waypoints' = [waypoints EXCEPT ![creator.m] = creator.n]
    /\ creator' = IdleCreator
    /\ UNCHANGED <<mission, reached, drone, cache, queue, worker, client, requests, issued,
                   completions, simulator,
                   report, survey, telemetry,
                   planner>>

(* A control request arrives at POST /missions/:id/<op>. *)
Request(c, op, m) ==
    /\ client[c].pc = "idle"
    /\ requests < MaxRequests
    /\ mission[m].status # "NONE"
    /\ client' = [client EXCEPT ![c] = [op |-> op, m |-> m, pc |-> "get", snap |-> NoSnap]]
    /\ requests' = requests + 1
    /\ issued' = [issued EXCEPT ![m] = @ \cup {op}]
    /\ UNCHANGED <<mission, reached, drone, cache, queue, worker, completions, waypoints, creator, simulator,
                   report, survey, telemetry,
                   planner>>

(* The handler has the mission from getMissionById: check the status, then   *)
(* go on to the first write, or throw (the route replies with an error).     *)
ClientChecked(c, snap) ==
    IF Allowed(client[c].op, snap.status)
    THEN [client EXCEPT ![c].snap = snap,
                        ![c].pc = IF client[c].op \in {"start", "abort"} THEN "drone" ELSE "status"]
    ELSE [client EXCEPT ![c] = IdleClient]

(* getMissionById, cache lookup: a hit returns the cached mission. *)
ClientCacheGet(c) ==
    /\ client[c].pc = "get"
    /\ client' = IF cache[client[c].m] # NoSnap
                 THEN ClientChecked(c, cache[client[c].m])
                 ELSE [client EXCEPT ![c].pc = "read"]
    /\ UNCHANGED <<mission, reached, drone, cache, queue, worker, requests, issued, completions, waypoints, creator, simulator,
                   report, survey, telemetry,
                   planner>>

(* getMissionById, cache miss: read the row from the database. *)
ClientDbRead(c) ==
    /\ client[c].pc = "read"
    /\ client' = [client EXCEPT ![c].snap = Snapshot(client[c].m), ![c].pc = "set"]
    /\ UNCHANGED <<mission, reached, drone, cache, queue, worker, requests, issued, completions, waypoints, creator, simulator,
                   report, survey, telemetry,
                   planner>>

(* getMissionById, cache miss: store what was read under mission:<id>. *)
ClientCacheSet(c) ==
    /\ client[c].pc = "set"
    /\ cache' = [cache EXCEPT ![client[c].m] = client[c].snap]
    /\ client' = ClientChecked(c, client[c].snap)
    /\ UNCHANGED <<mission, reached, drone, queue, worker, requests, issued, completions, waypoints, creator, simulator,
                   report, survey, telemetry,
                   planner>>

(* startMission / abortMission: fleetService.updateDrone(droneId, {status}). *)
ClientDroneWrite(c) ==
    /\ client[c].pc = "drone"
    /\ drone' = [drone EXCEPT ![mission[client[c].m].droneId].status = DroneTarget(client[c].op)]
    /\ client' = [client EXCEPT ![c].pc = "status"]
    /\ UNCHANGED <<mission, reached, cache, queue, worker, requests, issued, completions, waypoints, creator, simulator,
                   report, survey, telemetry,
                   planner>>

(* startMission's `mission.startTime || new Date()`: the start time of the   *)
(* mission the handler read or, when that is null, the current time, which   *)
(* is later than any time stored before.  Times are 0 (null), 1, 2, ...      *)
startTimeOrNow(read, stored) == IF read # 0 THEN read ELSE stored + 1

(* Variant of ClientStatusWrite that writes back the row the handler read. *)
ClientStatusWriteRow(c) ==
    /\ client[c].pc = "status"
    /\ mission' = [mission EXCEPT
           ![client[c].m].status = Target(client[c].op),
           ![client[c].m].currentWaypoint = client[c].snap.currentWaypoint,
           ![client[c].m].distanceCovered = client[c].snap.distanceCovered,
           ![client[c].m].startTime = IF client[c].op = "start"
                                      THEN startTimeOrNow(client[c].snap.startTime, @)
                                      ELSE @,
           ![client[c].m].ended = IF client[c].op = "abort" THEN TRUE ELSE @]
    /\ client' = [client EXCEPT ![c].pc = "del"]
    /\ UNCHANGED <<reached, drone, cache, queue, worker, requests, issued, completions, waypoints, creator, simulator,
                   report, survey, telemetry,
                   planner>>

(* prisma.mission.update of the status (with startTime on start, endTime on  *)
(* abort).                                                                   *)
ClientStatusWrite(c) ==
    /\ client[c].pc = "status"
    /\ mission' = [mission EXCEPT
           ![client[c].m].status = Target(client[c].op),
           ![client[c].m].startTime = IF client[c].op = "start"
                                      THEN startTimeOrNow(client[c].snap.startTime, @)
                                      ELSE @,
           ![client[c].m].ended = IF client[c].op = "abort" THEN TRUE ELSE @]
    /\ client' = [client EXCEPT ![c].pc = "del"]
    /\ UNCHANGED <<reached, drone, cache, queue, worker, requests, issued, completions, waypoints, creator, simulator,
                   report, survey, telemetry,
                   planner>>

(* cacheHelper.del(mission:<id>), then the handler returns to its route. *)
ClientCacheDel(c) ==
    /\ client[c].pc = "del"
    /\ cache' = [cache EXCEPT ![client[c].m] = NoSnap]
    /\ client' = IF client[c].op \in {"start", "resume"}
                 THEN [client EXCEPT ![c].pc = "enqueue", ![c].snap = NoSnap]
                 ELSE [client EXCEPT ![c] = IdleClient]
    /\ UNCHANGED <<mission, reached, drone, queue, worker, requests, issued, completions, waypoints, creator, simulator,
                   report, survey, telemetry,
                   planner>>

(* The start and resume routes: startMissionSimulation(id). *)
startMissionSimulation(c) ==
    /\ client[c].pc = "enqueue"
    /\ queue' = Append(queue, [m |-> client[c].m, attempt |-> 1])
    /\ client' = [client EXCEPT ![c] = IdleClient]
    /\ UNCHANGED <<mission, reached, drone, cache, worker, requests, issued, completions, waypoints, creator, simulator,
                   report, survey, telemetry,
                   planner>>

(* The start and resume routes when missionQueue.add rejects (Redis does not *)
(* take the job): the route's catch block replies 500; the status written   *)
(* by startMission or resumeMission stays as it is and no job is queued.     *)
startMissionSimulationFails(c) ==
    /\ client[c].pc = "enqueue"
    /\ client' = [client EXCEPT ![c] = IdleClient]
    /\ UNCHANGED <<mission, reached, drone, cache, queue, worker, requests, issued, completions, waypoints, creator, simulator,
                   report, survey, telemetry,
                   planner>>

(* The 60 s TTL of a cached mission runs out. *)
CacheExpire(m) ==
    /\ cache[m] # NoSnap
    /\ cache' = [cache EXCEPT ![m] = NoSnap]
    /\ UNCHANGED <<mission, reached, drone, queue, worker, client, requests, issued, completions, waypoints, creator, simulator,
                   report, survey, telemetry,
                   planner>>

(* ------------------- simulation worker (missionQueue.process) ---------- *)
WM == worker.m
WDrone == mission[WM].droneId
WWaypoints == worker.n

(* Locals of the segment the worker is on. *)
SegFrom == WaypointX(worker.idx)
SegTo == WaypointX(worker.idx + 1)
segmentDistance == calculateDistance(SegFrom, SegTo)
steps == Ceil(segmentDistance, Speed)
position == interpolatePosition(SegFrom, SegTo, worker.step, steps)
distanceToNext == calculateDistance(position, SegTo)

(* overallProgress = (currentWaypointIndex + segmentProgress) / waypoints.length * 100, *)
(* with segmentProgress = 1 - distanceToNext / segmentDistance.                         *)
overallProgress ==
    Frac(100 * (worker.idx * segmentDistance + (segmentDistance - distanceToNext)),
         WWaypoints * segmentDistance)

(* totalDistanceCovered + segmentDistance * segmentProgress *)
distanceCoveredNow == worker.total + (segmentDistance - distanceToNext)

(* Head of `while (currentWaypointIndex < waypoints.length - 1)` for cursor idx: *)
(* stay in the loop, or fall through to completeMission.                         *)
LoopHead(w, idx) ==
    IF idx < w.n - 1
    THEN [w EXCEPT !.pc = "outer", !.idx = idx, !.step = 0]
    ELSE [w EXCEPT !.pc = "get", !.call = "complete", !.idx = idx, !.step = 0]

(* The job ends; Bull runs a failed job again while attempts remain. *)
JobEnds(failed) ==
    /\ worker' = IdleWorker
    /\ queue' = IF failed /\ worker.attempt < JobAttempts
                THEN Append(queue, [m |-> worker.m, attempt |-> worker.attempt + 1])
                ELSE queue

(* The processor takes the next waiting job (concurrency 1). *)
WorkerTakeJob ==
    /\ worker.pc = "idle"
    /\ queue # <<>>
    /\ worker' = [IdleWorker EXCEPT !.pc = "get", !.call = "job",
                                    !.m = Head(queue).m, !.attempt = Head(queue).attempt]
    /\ queue' = Tail(queue)
    /\ UNCHANGED <<mission, reached, drone, cache, client, requests, issued, completions, waypoints, creator, simulator,
                   report, survey, telemetry,
                   planner>>

(* What the worker does with the mission getMissionById returned:            *)
(*   job      - go on to load the waypoints; the cursor and the distance      *)
(*              start from the mission's currentWaypoint and distanceCovered; *)
(*   complete - completeMission goes on without looking at the status;       *)
(*   abortLow / abortCatch - abortMission checks the status and throws when  *)
(*   the mission is finished; thrown at line 142 the error lands in the      *)
(*   catch block, which calls abortMission again; thrown there it fails the  *)
(*   job.  Result: <<worker', failed>>.                                      *)
WorkerGot(snap) ==
    CASE worker.call = "job" ->
            <<[worker EXCEPT !.snap = NoSnap, !.pc = "waypoints",
                             !.total = snap.distanceCovered, !.idx = snap.currentWaypoint],
              FALSE>>
      [] worker.call = "complete" ->
            <<[worker EXCEPT !.snap = NoSnap, !.pc = "cdrone"], FALSE>>
      [] worker.call = "abortLow" ->
            IF abortMissionAllowed(snap.status)
            THEN <<[worker EXCEPT !.snap = NoSnap, !.pc = "adrone"], FALSE>>
            ELSE <<[worker EXCEPT !.snap = NoSnap, !.pc = "get", !.call = "abortCatch"], FALSE>>
      [] worker.call = "abortCatch" ->
            IF abortMissionAllowed(snap.status)
            THEN <<[worker EXCEPT !.snap = NoSnap, !.pc = "adrone"], FALSE>>
            ELSE <<worker, TRUE>>

WorkerAfterGet(snap) ==
    IF WorkerGot(snap)[2]
    THEN JobEnds(TRUE)
    ELSE /\ worker' = WorkerGot(snap)[1]
         /\ UNCHANGED queue

(* getMissionById in the worker: cache lookup. *)
WorkerCacheGet ==
    /\ worker.pc = "get"
    /\ IF cache[WM] # NoSnap
       THEN WorkerAfterGet(cache[WM])
       ELSE worker' = [worker EXCEPT !.pc = "read"] /\ UNCHANGED queue
    /\ UNCHANGED <<mission, reached, drone, cache, client, requests, issued, completions, waypoints, creator, simulator,
                   report, survey, telemetry,
                   planner>>

(* getMissionById in the worker: database read after a miss. *)
WorkerDbRead ==
    /\ worker.pc = "read"
    /\ worker' = [worker EXCEPT !.snap = Snapshot(WM), !.pc = "set"]
    /\ UNCHANGED <<mission, reached, drone, cache, queue, client, requests, issued, completions, waypoints, creator, simulator,
                   report, survey, telemetry,
                   planner>>

(* getMissionById in the worker: cache fill after a miss. *)
WorkerCacheSet ==
    /\ worker.pc = "set"
    /\ cache' = [cache EXCEPT ![WM] = worker.snap]
    /\ WorkerAfterGet(worker.snap)
    /\ UNCHANGED <<mission, reached, drone, client, requests, issued, completions, waypoints, creator, simulator,
                   report, survey, telemetry,
                   planner>>

(* prisma.waypoint.findMany: without waypoints the job throws into its catch *)
(* block, which calls abortMission and rethrows; otherwise the loop starts   *)
(* with waypoints.length = the number of rows found.                         *)
WorkerReadWaypoints ==
    /\ worker.pc = "waypoints"
    /\ worker' = IF waypoints[WM] = 0
                 THEN [worker EXCEPT !.pc = "get", !.call = "abortCatch"]
                 ELSE LoopHead([worker EXCEPT !.n = waypoints[WM]], worker.idx)
    /\ UNCHANGED <<mission, reached, drone, cache, queue, client, requests, issued, completions,
                   waypoints, creator, simulator,
                   report, survey, telemetry,
                   planner>>

(* Top of the while loop: read the mission; break when it is not ACTIVE.   *)
(* After the break the code goes on to completeMission.                    *)
WorkerOuterCheck ==
    /\ worker.pc = "outer"
    /\ worker' = IF mission[WM].status = "ACTIVE"
                 THEN [worker EXCEPT !.pc = "inner", !.step = 0]
                 ELSE [worker EXCEPT !.pc = "get", !.call = "complete"]
    /\ UNCHANGED <<mission, reached, drone, cache, queue, client, requests, issued, completions, waypoints, creator, simulator,
                   report, survey, telemetry,
                   planner>>

(* Top of the step loop: read the status; return when it is not ACTIVE. *)
WorkerStatusCheck ==
    /\ worker.pc = "inner"
    /\ IF mission[WM].status = "ACTIVE"
       THEN worker' = [worker EXCEPT !.pc = "position"] /\ UNCHANGED queue
       ELSE JobEnds(FALSE)
    /\ UNCHANGED <<mission, reached, drone, cache, client, requests, issued, completions, waypoints, creator, simulator,
                   report, survey, telemetry,
                   planner>>

(* fleetService.updateDronePosition *)
WorkerPosition ==
    /\ worker.pc = "position"
    /\ drone' = [drone EXCEPT ![WDrone].position = position]
    /\ worker' = [worker EXCEPT !.pc = "readDrone"]
    /\ UNCHANGED <<mission, reached, cache, queue, client, requests, issued, completions, waypoints, creator, simulator,
                   report, survey, telemetry,
                   planner>>

(* Variant of newBattery without the clamp at 0. *)
newBatteryUnclamped(battery) == battery - BatteryDrainRate

(* newBattery = Math.max(0, currentDrone.battery - batteryDrainRate) *)
newBattery(battery) == Max(0, battery - BatteryDrainRate)

(* prisma.drone.findUnique of the drone's current battery *)
WorkerReadDrone ==
    /\ worker.pc = "readDrone"
    /\ worker' = [worker EXCEPT !.newBattery = newBattery(drone[WDrone].battery),
                                !.pc = "battery"]
    /\ UNCHANGED <<mission, reached, drone, cache, queue, client, requests, issued, completions, waypoints, creator, simulator,
                   report, survey, telemetry,
                   planner>>

(* After updateDroneBattery: emit drone:position, then abort on low battery. *)
AfterBattery(w) ==
    IF w.newBattery < LowBattery
    THEN [w EXCEPT !.pc = "get", !.call = "abortLow"]
    ELSE [w EXCEPT !.pc = "progress"]

(* emitDronePosition / emitMissionProgress for the step the worker is on. *)
Emit(kind) == [telemetry EXCEPT ![WM][kind] = <<worker.idx, worker.step>>]

(* fleetService.updateDroneBattery: write the battery. *)
WorkerBattery ==
    /\ worker.pc = "battery"
    /\ drone' = [drone EXCEPT ![WDrone].battery = worker.newBattery]
    /\ worker' = IF worker.newBattery < ChargeBattery
                 THEN [worker EXCEPT !.pc = "charging"]
                 ELSE AfterBattery(worker)
    /\ issued' = IF worker.newBattery < LowBattery
                 THEN [issued EXCEPT ![WM] = @ \cup {"lowBattery"}]
                 ELSE issued
    /\ telemetry' = IF worker.newBattery < ChargeBattery THEN telemetry ELSE Emit("position")
    /\ UNCHANGED <<mission, reached, cache, queue, client, requests, completions, waypoints, creator, simulator,
                   report, survey,
                   planner>>

(* fleetService.updateDroneBattery: below 20% the drone is set CHARGING. *)
WorkerCharging ==
    /\ worker.pc = "charging"
    /\ drone' = [drone EXCEPT ![WDrone].status = "CHARGING"]
    /\ worker' = AfterBattery(worker)
    /\ telemetry' = Emit("position")
    /\ UNCHANGED <<mission, reached, cache, queue, client, requests, issued, completions, waypoints, creator, simulator,
                   report, survey,
                   planner>>

(* missionService.updateMissionProgress: the database write. *)
WorkerProgress ==
    /\ worker.pc = "progress"
    /\ mission' = [mission EXCEPT ![WM].progress = overallProgress,
                                  ![WM].currentWaypoint = worker.idx,
                                  ![WM].distanceCovered = distanceCoveredNow]
    /\ worker' = [worker EXCEPT !.pc = "progressDel"]
    /\ UNCHANGED <<reached, drone, cache, queue, client, requests, issued, completions, waypoints, creator, simulator,
                   report, survey, telemetry,
                   planner>>

(* missionService.updateMissionProgress: cache invalidation; emit mission:progress. *)
WorkerProgressDel ==
    /\ worker.pc = "progressDel"
    /\ cache' = [cache EXCEPT ![WM] = NoSnap]
    /\ worker' = [worker EXCEPT !.pc = "wait"]
    /\ telemetry' = Emit("progress")
    /\ UNCHANGED <<mission, reached, drone, queue, client, requests, issued, completions, waypoints, creator, simulator,
                   report, survey,
                   planner>>

(* The one-second timer fires: next step, or the segment is finished. *)
WorkerTick ==
    /\ worker.pc = "wait"
    /\ worker' = IF worker.step + 1 <= steps
                 THEN [worker EXCEPT !.step = @ + 1, !.pc = "inner"]
                 ELSE [worker EXCEPT !.pc = "mark"]
    /\ UNCHANGED <<mission, reached, drone, cache, queue, client, requests, issued, completions, waypoints, creator, simulator,
                   report, survey, telemetry,
                   planner>>

(* Mark the next waypoint reached; totalDistanceCovered += segmentDistance;  *)
(* currentWaypointIndex++.                                                   *)
WorkerMarkReached ==
    /\ worker.pc = "mark"
    /\ reached' = [reached EXCEPT ![WM] = @ \cup {worker.idx + 1}]
    /\ worker' = LoopHead([worker EXCEPT !.total = @ + segmentDistance], worker.idx + 1)
    /\ UNCHANGED <<mission, drone, cache, queue, client, requests, issued, completions, waypoints, creator, simulator,
                   report, survey, telemetry,
                   planner>>

(* completeMission / abortMission in the worker: updateDrone(AVAILABLE). *)
WorkerDroneAvailable ==
    /\ worker.pc \in {"cdrone", "adrone"}
    /\ drone' = [drone EXCEPT ![WDrone].status = "AVAILABLE"]
    /\ worker' = [worker EXCEPT !.pc = IF worker.pc = "cdrone" THEN "cstatus" ELSE "astatus"]
    /\ UNCHANGED <<mission, reached, cache, queue, client, requests, issued, completions, waypoints, creator, simulator,
                   report, survey, telemetry,
                   planner>>

(* completeMission: status COMPLETED, progress 100. *)
completeMission ==
    /\ worker.pc = "cstatus"
    /\ mission' = [mission EXCEPT ![WM].status = "COMPLETED", ![WM].progress = Percent(100),
                                  ![WM].ended = TRUE]
    /\ completions' = [completions EXCEPT ![WM] = @ + 1]
    /\ worker' = [worker EXCEPT !.pc = "finishDel"]
    /\ UNCHANGED <<reached, drone, cache, queue, client, requests, issued, waypoints, creator, simulator,
                   report, survey, telemetry,
                   planner>>

(* abortMission called by the worker: status ABORTED. *)
WorkerAbortStatus ==
    /\ worker.pc = "astatus"
    /\ mission' = [mission EXCEPT ![WM].status = "ABORTED", ![WM].ended = TRUE]
    /\ worker' = [worker EXCEPT !.pc = "finishDel"]
    /\ UNCHANGED <<reached, drone, cache, queue, client, requests, issued, completions, waypoints, creator, simulator,
                   report, survey, telemetry,
                   planner>>

(* Cache invalidation and mission:status event of completeMission or          *)
(* abortMission; the job then returns, or rethrows from the catch block.      *)
WorkerFinish ==
    /\ worker.pc = "finishDel"
    /\ cache' = [cache EXCEPT ![WM] = NoSnap]
    /\ JobEnds(worker.call = "abortCatch")
    /\ UNCHANGED <<mission, reached, drone, client, requests, issued, completions, waypoints, creator, simulator,
                   report, survey, telemetry,
                   planner>>

(* ------------------------------ fleet API ----------------------------- *)
(* POST /fleet: a new drone, AVAILABLE with a full battery. *)
createDrone(d) ==
    /\ drone[d] = NoDrone
    /\ \A k \in Drones : k < d => drone[k] # NoDrone
    /\ drone' = [drone EXCEPT ![d] = [status |-> "AVAILABLE", battery |-> BatteryFull,
                                     position |-> 0]]
    /\ UNCHANGED <<mission, reached, cache, queue, worker, client, requests, issued, completions,
                   waypoints, creator, simulator,
                   report, survey, telemetry,
                   planner>>

(* PUT /fleet/:id with a battery the schema accepts. *)
updateDrone(d, battery) ==
    /\ drone[d] # NoDrone
    /\ requests < MaxRequests
    /\ drone' = [drone EXCEPT ![d].battery = battery]
    /\ requests' = requests + 1
    /\ UNCHANGED <<mission, reached, cache, queue, worker, client, issued, completions,
                   waypoints, creator, simulator,
                   report, survey, telemetry,
                   planner>>

(* ----------------------- ambient drone simulator ---------------------- *)
(* newBattery = max(20, battery - 0.05); below 25 the drone is recharged. *)
finalBattery(battery) ==
    LET drained == Max(AmbientFloor, battery - AmbientDrainRate)
    IN  IF drained < AmbientRecharge THEN BatteryFull ELSE drained

(* A tick of the simulator reads an AVAILABLE drone and computes its next    *)
(* position (one move in a direction of its choice) and battery.             *)
SimulatorRead(d) ==
    /\ simulator.ticks < MaxTicks
    /\ ~simulator.write[d].pending
    /\ drone[d].status = "AVAILABLE"
    /\ \E move \in {0 - AmbientMove, AmbientMove} :
          simulator' = [ticks |-> simulator.ticks + 1,
                        write |-> [simulator.write EXCEPT ![d] =
                                     [pending |-> TRUE,
                                      battery |-> finalBattery(drone[d].battery),
                                      position |-> drone[d].position + move]]]
    /\ UNCHANGED <<mission, reached, drone, cache, queue, worker, client, requests, issued,
                   completions, waypoints, creator,
                   report, survey, telemetry,
                   planner>>

(* The simulator writes what it computed from its read. *)
SimulatorWrite(d) ==
    /\ simulator.write[d].pending
    /\ drone' = [drone EXCEPT ![d].battery = simulator.write[d].battery,
                              ![d].position = simulator.write[d].position]
    /\ simulator' = [simulator EXCEPT !.write[d] = NoWrite]
    /\ UNCHANGED <<mission, reached, cache, queue, worker, client, requests, issued, completions,
                   waypoints, creator,
                   report, survey, telemetry,
                   planner>>

(* ----------------------------- path planner --------------------------- *)
(* Coordinates are whole numbers of 1/DegreeUnits of a degree, so that one   *)
(* unit of latitude is one metre of spacing; polygons are sequences of       *)
(* <<longitude, latitude>>, waypoints are <<longitude, latitude, altitude>>. *)
(* The polygons tried have edges whose longitude changes by a whole number   *)
(* of units per unit of latitude, so every intersection is a grid point.     *)
Square == <<<<0, 0>>, <<40, 0>>, <<40, 40>>, <<0, 40>>>>
Triangle == <<<<0, 12>>, <<24, 12>>, <<12, 0>>>>
Diamond == <<<<12, 0>>, <<24, 6>>, <<12, 12>>, <<0, 6>>>>
ClosedSquare == <<<<0, 0>>, <<12, 0>>, <<12, 12>>, <<0, 12>>, <<0, 0>>>>
(* The diamond again, its ring starting at the eastern corner. *)
DiamondFromEast == <<<<24, 6>>, <<12, 12>>, <<0, 6>>, <<12, 0>>>>
Polygons == {Square, Triangle, Diamond, ClosedSquare, DiamondFromEast}

Patterns == {"GRID", "PERIMETER", "CROSSHATCH"}
Altitudes == {20, 40}

(* overlapPercent of the request body: omitted, or a number the schema       *)
(* accepts (0..100).                                                         *)
OverlapInputs == {NoOverlap} \cup {[given |-> TRUE, value |-> v] : v \in {0, 50, 70, 100}}

SetMin(S) == CHOOSE x \in S : \A y \in S : x <= y
SetMax(S) == CHOOSE x \in S : \A y \in S : x >= y

(* coords.push(coords[0]) unless the ring is closed already. *)
closeRing(polygon) ==
    IF polygon[1] # polygon[Len(polygon)] THEN Append(polygon, polygon[1]) ELSE polygon

(* turf.bbox: [minLng, minLat, maxLng, maxLat] *)
bbox(ring) ==
    LET lngs == {ring[i][1] : i \in 1..Len(ring)}
        lats == {ring[i][2] : i \in 1..Len(ring)}
    IN  [minLng |-> SetMin(lngs), minLat |-> SetMin(lats),
         maxLng |-> SetMax(lngs), maxLat |-> SetMax(lats)]

(* input.overlapPercent || 70 *)
overlapOrDefault(overlapPercent) ==
    IF ~overlapPercent.given \/ overlapPercent.value = 0
    THEN DefaultOverlap
    ELSE overlapPercent.value

(* spacing = altitude * 0.5 * (1 - overlapPercent / 100), in metres. *)
lineSpacing(altitude, overlapPercent) == (altitude * (100 - overlapPercent)) \div 200

(* spacingDegrees = spacing / 111320, in coordinate units. *)
spacingDegrees(spacing) == (spacing * DegreeUnits) \div MetersPerDegree

(* Where the sweep line of latitude lat meets the edge from a to b: nothing  *)
(* for an edge parallel to it, else the point of the edge at that latitude.  *)
edgeIntersect(lat, a, b) ==
    IF a[2] = b[2] \/ lat < SetMin({a[2], b[2]}) \/ lat > SetMax({a[2], b[2]})
    THEN <<>>
    ELSE <<<<a[1] + ((lat - a[2]) * (b[1] - a[1])) \div (b[2] - a[2]), lat>>>>

(* turf.lineIntersect of the sweep line with the polygon: the intersection   *)
(* points edge by edge, each point once.                                     *)
RECURSIVE lineIntersectFrom(_, _, _, _)
lineIntersectFrom(lat, ring, i, found) ==
    IF i >= Len(ring)
    THEN found
    ELSE LET hit == edgeIntersect(lat, ring[i], ring[i + 1])
         IN  lineIntersectFrom(lat, ring, i + 1,
                 IF hit = <<>> \/ \E k \in 1..Len(found) : found[k] = hit[1]
                 THEN found
                 ELSE found \o hit)

lineIntersect(lat, ring) == lineIntersectFrom(lat, ring, 1, <<>>)

(* Variant of gridLine that leaves the altitude of the line's end at 0. *)
gridLineFlat(points, direction, altitude) ==
    IF Len(points) >= 2
    THEN <<<<points[1][1], points[1][2], altitude>>,
           <<points[Len(points)][1], points[Len(points)][2], 0>>>>
    ELSE <<>>

(* One sweep line of generateGridPattern: two waypoints when the line meets  *)
(* the polygon in two or more points, in the order of the sweep direction.   *)
gridLine(points, direction, altitude) ==
    IF Len(points) >= 2
    THEN IF direction = 1
         THEN <<<<points[1][1], points[1][2], altitude>>,
                <<points[Len(points)][1], points[Len(points)][2], altitude>>>>
         ELSE <<<<points[Len(points)][1], points[Len(points)][2], altitude>>,
                <<points[1][1], points[1][2], altitude>>>>
    ELSE <<>>

(* turf.buffer by a negative offset: the ring moved inwards by inset units,  *)
(* or nothing when the polygon is too small to be left with an interior.     *)
buffer(ring, inset) ==
    LET b == bbox(ring)
        inward(x, lo, hi) == IF 2 * x < lo + hi THEN x + inset
                             ELSE IF 2 * x > lo + hi THEN x - inset ELSE x
    IN  IF b.maxLng - b.minLng <= 2 * inset \/ b.maxLat - b.minLat <= 2 * inset
        THEN <<>>
        ELSE [i \in 1..Len(ring) |-> <<inward(ring[i][1], b.minLng, b.maxLng),
                                        inward(ring[i][2], b.minLat, b.maxLat)>>]

generatePerimeterPattern(polygon, altitude) ==
    LET ring == closeRing(polygon)
        buffered == buffer(ring, PerimeterInset)
        perimeterCoords == IF buffered # <<>> THEN buffered ELSE ring
    IN  [i \in 1..Len(perimeterCoords) |->
            <<perimeterCoords[i][1], perimeterCoords[i][2], altitude>>]

(* POST /missions with a polygon, a pattern, an altitude and an overlap for  *)
(* an AVAILABLE drone: generateFlightPath computes the spacing and calls the *)
(* pattern's generator.                                                      *)
PlannerRequest(polygon, pattern, altitude, overlapPercent) ==
    /\ planner.pc = "idle"
    /\ planner' = [IdlePlanner EXCEPT
           !.pc = IF pattern = "PERIMETER" THEN "perimeter" ELSE "grid",
           !.polygon = polygon, !.pattern = pattern, !.altitude = altitude,
           !.overlapPercent = overlapPercent,
           !.spacing = lineSpacing(altitude, overlapOrDefault(overlapPercent)),
           !.pass = 1,
           !.currentLat = bbox(closeRing(polygon)).minLat,
           !.direction = 1]
    /\ UNCHANGED <<mission, reached, drone, cache, queue, worker, client, requests, issued,
                   completions, waypoints, creator, simulator, report, survey, telemetry>>

(* generateGridPattern, one turn of `while (currentLat <= maxLat)`. *)
GridSweep ==
    /\ planner.pc = "grid"
    /\ planner.currentLat <= bbox(closeRing(planner.polygon)).maxLat
    /\ Len(planner.waypoints) < MaxPath
    /\ planner' = [planner EXCEPT
           !.waypoints = @ \o gridLine(lineIntersect(planner.currentLat, closeRing(planner.polygon)),
                                       planner.direction, planner.altitude),
           !.currentLat = @ + spacingDegrees(planner.spacing),
           !.direction = 0 - @]
    /\ UNCHANGED <<mission, reached, drone, cache, queue, worker, client, requests, issued,
                   completions, waypoints, creator, simulator, report, survey, telemetry>>

(* generateGridPattern returns; generateCrosshatchPattern calls it a second  *)
(* time with angle 90 and concatenates the two results.                      *)
GridReturn ==
    /\ planner.pc = "grid"
    /\ planner.currentLat > bbox(closeRing(planner.polygon)).maxLat
    /\ planner' = IF planner.pattern = "CROSSHATCH" /\ planner.pass = 1
                  THEN [planner EXCEPT !.pass = 2, !.grid1 = planner.waypoints,
                                       !.waypoints = <<>>,
                                       !.currentLat = bbox(closeRing(planner.polygon)).minLat,
                                       !.direction = 1]
                  ELSE [planner EXCEPT !.pc = "generated",
                                       !.path = planner.grid1 \o planner.waypoints]
    /\ UNCHANGED <<mission, reached, drone, cache, queue, worker, client, requests, issued,
                   completions, waypoints, creator, simulator, report, survey, telemetry>>

(* generateFlightPath for PERIMETER. *)
PerimeterPath ==
    /\ planner.pc = "perimeter"
    /\ planner' = [planner EXCEPT !.pc = "generated",
                                  !.path = generatePerimeterPattern(planner.polygon, planner.altitude)]
    /\ UNCHANGED <<mission, reached, drone, cache, queue, worker, client, requests, issued,
                   completions, waypoints, creator, simulator, report, survey, telemetry>>

(* createMission: 'Failed to generate flight path' for an empty path. *)
PlannerCheckPath ==
    /\ planner.pc = "generated"
    /\ planner' = IF Len(planner.path) = 0
                  THEN [planner EXCEPT !.pc = "failed", !.error = "Failed to generate flight path"]
                  ELSE [planner EXCEPT !.pc = "insert"]
    /\ UNCHANGED <<mission, reached, drone, cache, queue, worker, client, requests, issued,
                   completions, waypoints, creator, simulator, report, survey, telemetry>>

(* createMission: prisma.mission.create. *)
PlannerMissionRow ==
    /\ planner.pc = "insert"
    /\ planner' = [planner EXCEPT
           !.pc = "rows",
           !.stored = [altitude |-> planner.altitude,
                       overlapPercent |-> overlapOrDefault(planner.overlapPercent),
                       totalWaypoints |-> Len(planner.path)]]
    /\ UNCHANGED <<mission, reached, drone, cache, queue, worker, client, requests, issued,
                   completions, waypoints, creator, simulator, report, survey, telemetry>>

(* Variant of PlannerWaypointRows that numbers the waypoints from 1. *)
PlannerWaypointRowsFromOne ==
    /\ planner.pc = "rows"
    /\ planner' = [planner EXCEPT
           !.pc = "created",
           !.rows = [i \in 1..Len(planner.path) |->
                       [sequence |-> i, longitude |-> planner.path[i][1],
                        latitude |-> planner.path[i][2], altitude |-> planner.path[i][3],
                        reached |-> FALSE]]]
    /\ UNCHANGED <<mission, reached, drone, cache, queue, worker, client, requests, issued,
                   completions, waypoints, creator, simulator, report, survey, telemetry>>

(* createMission: prisma.waypoint.createMany, sequence = index in the path. *)
PlannerWaypointRows ==
    /\ planner.pc = "rows"
    /\ planner' = [planner EXCEPT
           !.pc = "created",
           !.rows = [i \in 1..Len(planner.path) |->
                       [sequence |-> i - 1, longitude |-> planner.path[i][1],
                        latitude |-> planner.path[i][2], altitude |-> planner.path[i][3],
                        reached |-> FALSE]]]
    /\ UNCHANGED <<mission, reached, drone, cache, queue, worker, client, requests, issued,
                   completions, waypoints, creator, simulator, report, survey, telemetry>>

(* The worker's prisma.waypoint.update of the waypoint after segment idx:    *)
(* reached and reachedAt are the only fields written. Segments are flown in  *)
(* order.                                                                    *)
PlannerMarkReached(idx) ==
    /\ planner.pc = "created"
    /\ idx + 2 <= Len(planner.rows)
    /\ ~planner.rows[idx + 2].reached
    /\ idx > 0 => planner.rows[idx + 1].reached
    /\ planner' = [planner EXCEPT !.rows[idx + 2].reached = TRUE]
    /\ UNCHANGED <<mission, reached, drone, cache, queue, worker, client, requests, issued,
                   completions, waypoints, creator, simulator, report, survey, telemetry>>

(* ------------------------ floating-point numbers --------------------- *)
(* JavaScript numbers are binary floating point: the result of every         *)
(* operation is rounded to the nearest number with the format's number of    *)
(* significant bits, ties to the even significand.  Here the format has      *)
(* SignificandBits bits and whole numbers of one smallest unit.              *)
RECURSIVE Pow2(_)
Pow2(n) == IF n = 0 THEN 1 ELSE 2 * Pow2(n - 1)

(* Distance between neighbouring representable numbers at magnitude n. *)
RECURSIVE Ulp(_)
Ulp(n) == IF n < Pow2(SignificandBits) THEN 1 ELSE 2 * Ulp(n \div 2)

(* The representable number nearest to num / den. *)
roundToFloat(num, den) ==
    LET a == Abs(num)
        u == Ulp(a \div den)
        lo == ((a \div den) \div u) * u
        hi == lo + u
        r == IF 2 * a < (lo + hi) * den THEN lo
             ELSE IF 2 * a > (lo + hi) * den THEN hi
             ELSE IF (lo \div u) % 2 = 0 THEN lo ELSE hi
    IN  IF num < 0 THEN 0 - r ELSE r

(* Numbers the format represents exactly; coordinates tried. *)
FloatInputs == {1, 5, 12, 14}
FloatWaypoints == {<<lng, lat, alt>> : lng \in FloatInputs, lat \in FloatInputs, alt \in Altitudes}

(* progress = step / steps, as <<step, steps>>; the values tried are exact. *)
ProgressInputs == {<<0, 1>>, <<1, 2>>, <<1, 1>>}

(* from + (to - from) * progress, one coordinate. *)
interpolateCoordinate(from, to, progress) ==
    roundToFloat(from + roundToFloat(roundToFloat(to - from, 1) * progress[1], progress[2]), 1)

(* interpolatePosition on [longitude, latitude, altitude]. *)
interpolatePositionFloat(from, to, progress) ==
    <<interpolateCoordinate(from[1], to[1], progress),
      interpolateCoordinate(from[2], to[2], progress),
      interpolateCoordinate(from[3], to[3], progress)>>

(* The worker computes the drone's position on the segment from -> to. *)
Interpolate(from, to, progress) ==
    /\ planner.pc = "idle"
    /\ planner' = [IdlePlanner EXCEPT !.pc = "interpolated", !.from = from, !.to = to,
                                      !.progress = progress,
                                      !.position = interpolatePositionFloat(from, to, progress)]
    /\ UNCHANGED <<mission, reached, drone, cache, queue, worker, client, requests, issued,
                   completions, waypoints, creator, simulator, report, survey, telemetry>>

(* --------------------------- survey reports --------------------------- *)
(* GET /surveys/:missionId arrives. *)
SurveyRequest(s, m) ==
    /\ survey[s].pc = "idle"
    /\ requests < MaxRequests
    /\ survey' = [survey EXCEPT ![s] = [IdleSurvey EXCEPT !.pc = "getReport", !.m = m]]
    /\ requests' = requests + 1
    /\ UNCHANGED <<mission, reached, drone, cache, queue, worker, client, issued, completions,
                   waypoints, creator, simulator, report, telemetry,
                   planner>>

(* The route's getSurveyReport: a stored report is sent back as it is. *)
getSurveyReport(s) ==
    /\ survey[s].pc = "getReport"
    /\ survey' = IF report[survey[s].m] # <<>>
                 THEN [survey EXCEPT ![s].pc = "reply", ![s].result = <<report[survey[s].m][1]>>]
                 ELSE [survey EXCEPT ![s].pc = "mission"]
    /\ UNCHANGED <<mission, reached, drone, cache, queue, worker, client, requests, issued,
                   completions, waypoints, creator, simulator, report, telemetry,
                   planner>>

(* What generateSurveyReport computes from the mission it read, with its     *)
(* drone and its waypoints.                                                  *)
Metrics(m) == [distance |-> mission[m].distanceCovered,
               waypointsTotal |-> waypoints[m],
               waypointsReached |-> Cardinality(reached[m]),
               batteryUsed |-> BatteryFull - drone[mission[m].droneId].battery]

(* generateSurveyReport: read the mission; 'Mission not found' if absent. *)
generateSurveyReportMission(s) ==
    /\ survey[s].pc = "mission"
    /\ survey' = IF mission[survey[s].m].status = "NONE"
                 THEN [survey EXCEPT ![s].pc = "reply", ![s].error = "Mission not found"]
                 ELSE [survey EXCEPT ![s].pc = "existing", ![s].metrics = Metrics(survey[s].m)]
    /\ UNCHANGED <<mission, reached, drone, cache, queue, worker, client, requests, issued,
                   completions, waypoints, creator, simulator, report, telemetry,
                   planner>>

(* generateSurveyReport: a report that exists by now is returned. *)
generateSurveyReportExisting(s) ==
    /\ survey[s].pc = "existing"
    /\ survey' = IF report[survey[s].m] # <<>>
                 THEN [survey EXCEPT ![s].pc = "reply", ![s].result = <<report[survey[s].m][1]>>]
                 ELSE [survey EXCEPT ![s].pc = "create"]
    /\ UNCHANGED <<mission, reached, drone, cache, queue, worker, client, requests, issued,
                   completions, waypoints, creator, simulator, report, telemetry,
                   planner>>

(* The unique index on SurveyReport.missionId lets an insert for m through. *)
missionIdUnique(m) == report[m] = <<>>

(* Variant of generateSurveyReportCreate that writes with an upsert. *)
generateSurveyReportUpsert(s) ==
    /\ survey[s].pc = "create"
    /\ report' = [report EXCEPT ![survey[s].m] = <<survey[s].metrics>>]
    /\ survey' = [survey EXCEPT ![s].pc = "reply", ![s].result = <<survey[s].metrics>>]
    /\ UNCHANGED <<mission, reached, drone, cache, queue, worker, client, requests, issued,
                   completions, waypoints, creator, simulator, telemetry,
                   planner>>

(* generateSurveyReport: prisma.surveyReport.create with the metrics         *)
(* computed from the earlier read; the insert throws when the mission has a  *)
(* report by now.                                                            *)
generateSurveyReportCreate(s) ==
    /\ survey[s].pc = "create"
    /\ IF missionIdUnique(survey[s].m)
       THEN /\ report' = [report EXCEPT ![survey[s].m] = Append(@, survey[s].metrics)]
            /\ survey' = [survey EXCEPT ![s].pc = "reply", ![s].result = <<survey[s].metrics>>]
       ELSE /\ report' = report
            /\ survey' = [survey EXCEPT ![s].pc = "reply", ![s].error = "Unique constraint failed"]
    /\ UNCHANGED <<mission, reached, drone, cache, queue, worker, client, requests, issued,
                   completions, waypoints, creator, simulator, telemetry,
                   planner>>

(* The route replies with the report, or with status 500 and the error. *)
SurveyReply(s) ==
    /\ survey[s].pc = "reply"
    /\ survey' = [survey EXCEPT ![s] = IdleSurvey]
    /\ UNCHANGED <<mission, reached, drone, cache, queue, worker, client, requests, issued,
                   completions, waypoints, creator, simulator, report, telemetry,
                   planner>>

(* ---------------------------- specification ---------------------------- *)
(* Steps of the queue worker. *)
WorkerNext ==
    \/ WorkerTakeJob
    \/ WorkerCacheGet
    \/ WorkerDbRead
    \/ WorkerCacheSet
    \/ WorkerReadWaypoints
    \/ WorkerOuterCheck
    \/ WorkerStatusCheck
    \/ WorkerPosition
    \/ WorkerReadDrone
    \/ WorkerBattery
    \/ WorkerCharging
    \/ WorkerProgress
    \/ WorkerProgressDel
    \/ WorkerTick
    \/ WorkerMarkReached
    \/ WorkerDroneAvailable
    \/ completeMission
    \/ WorkerAbortStatus
    \/ WorkerFinish

(* Steps of a control request once it has arrived. *)
ClientNext ==
    \/ \E c \in Clients : ClientCacheGet(c)
    \/ \E c \in Clients : ClientDbRead(c)
    \/ \E c \in Clients : ClientCacheSet(c)
    \/ \E c \in Clients : ClientDroneWrite(c)
    \/ \E c \in Clients : ClientStatusWrite(c)
    \/ \E c \in Clients : ClientCacheDel(c)
    \/ \E c \in Clients : startMissionSimulation(c)

(* Missions and their control operations on the seeded fleet. *)
Next ==
    \/ \E d \in Drones, n \in PathSizes : createMission(d, n)
    \/ createMissionRow
    \/ createWaypoints
    \/ \E c \in Clients, op \in Ops, m \in Missions : Request(c, op, m)
    \/ ClientNext
    \/ \E m \in Missions : CacheExpire(m)
    \/ WorkerNext

Spec == Init /\ [][Next]_vars

(* A growing fleet: drones are added through the API, missions are created   *)
(* (or refused) for them and started.                                        *)
NextFleet ==
    \/ \E d \in Drones : createDrone(d)
    \/ \E d \in Drones : createMission(d, FleetPath)
    \/ \E d \in Drones, n \in {EmptyPath, FleetPath} : createMissionFails(d, n)
    \/ createMissionReply
    \/ createMissionRow
    \/ createWaypoints
    \/ \E c \in Clients, m \in Missions : Request(c, "start", m)
    \/ ClientNext
    \/ \E m \in Missions : CacheExpire(m)
    \/ WorkerNext

SpecFleet == Init /\ [][NextFleet]_vars

(* Everything that writes a drone's battery: the worker of a started         *)
(* mission, the ambient simulator and PUT /fleet/:id.                        *)
NextBattery ==
    \/ \E d \in Drones, battery \in UpdateBatteries : updateDrone(d, battery)
    \/ \E d \in Drones : SimulatorRead(d)
    \/ \E d \in Drones : SimulatorWrite(d)
    \/ \E d \in Drones : createMission(d, FleetPath)
    \/ createMissionRow
    \/ createWaypoints
    \/ \E c \in Clients, m \in Missions : Request(c, "start", m)
    \/ ClientNext
    \/ WorkerNext

SpecBattery == Init /\ [][NextBattery]_vars

(* Steps of the start requests of SpecStart once they have arrived. *)
StarterNext ==
    \/ \E c \in Starters : ClientCacheGet(c)
    \/ \E c \in Starters : ClientDbRead(c)
    \/ \E c \in Starters : ClientCacheSet(c)
    \/ \E c \in Starters : ClientDroneWrite(c)
    \/ \E c \in Starters : ClientStatusWrite(c)
    \/ \E c \in Starters : ClientCacheDel(c)
    \/ \E c \in Starters : startMissionSimulation(c)

(* Start requests that arrive while another start request is being handled. *)
NextStart ==
    \/ \E d \in Drones : createMission(d, FleetPath)
    \/ createMissionRow
    \/ createWaypoints
    \/ \E c \in Starters, m \in Missions : Request(c, "start", m)
    \/ StarterNext
    \/ WorkerNext

SpecStart == Init /\ [][NextStart]_vars

(* Missions are started while the queue may refuse a job.  Every pending    *)
(* continuation of a handler and of the job processor is run by the event    *)
(* loop and by Bull sooner or later; requests arrive as they please.         *)
NextLive ==
    \/ \E d \in Drones : createMission(d, FleetPath)
    \/ createMissionRow
    \/ createWaypoints
    \/ \E c \in Clients, m \in Missions : Request(c, "start", m)
    \/ ClientNext
    \/ \E c \in Clients : startMissionSimulationFails(c)
    \/ WorkerNext

SpecLive ==
    /\ Init
    /\ [][NextLive]_vars
    /\ WF_vars(createMissionRow \/ createWaypoints)
    /\ WF_vars(ClientNext \/ \E c \in Clients : startMissionSimulationFails(c))
    /\ WF_vars(WorkerNext)

(* Steps of a survey request once it has arrived. *)
SurveyNext ==
    \/ \E s \in Surveyors : getSurveyReport(s)
    \/ \E s \in Surveyors : generateSurveyReportMission(s)
    \/ \E s \in Surveyors : generateSurveyReportExisting(s)
    \/ \E s \in Surveyors : generateSurveyReportCreate(s)
    \/ \E s \in Surveyors : SurveyReply(s)

(* Survey reports are requested while a mission is created, started and     *)
(* flown.                                                                    *)
NextSurvey ==
    \/ \E d \in Drones : createMission(d, FleetPath)
    \/ createMissionRow
    \/ createWaypoints
    \/ \E c \in Clients, m \in Missions : Request(c, "start", m)
    \/ ClientNext
    \/ WorkerNext
    \/ \E s \in Surveyors, m \in Missions : SurveyRequest(s, m)
    \/ SurveyNext

SpecSurvey == Init /\ [][NextSurvey]_vars

(* Missions planned for every polygon, pattern, altitude and overlap, their *)
(* waypoint rows, the worker's marking of them, and positions interpolated   *)
(* between two waypoints.                                                    *)
NextPlanner ==
    \/ \E polygon \in Polygons, pattern \in Patterns, altitude \in Altitudes,
          overlapPercent \in OverlapInputs :
            PlannerRequest(polygon, pattern, altitude, overlapPercent)
    \/ GridSweep
    \/ GridReturn
    \/ PerimeterPath
    \/ PlannerCheckPath
    \/ PlannerMissionRow
    \/ PlannerWaypointRows
    \/ \E idx \in 0..MaxPath : PlannerMarkReached(idx)
    \/ \E from \in FloatWaypoints, to \in FloatWaypoints, progress \in ProgressInputs :
          Interpolate(from, to, progress)

SpecPlanner == Init /\ [][NextPlanner]_vars

(* ------------------------------- helpers ------------------------------- *)
(* A step taken by the simulation worker (not by an API request). *)
WorkerStep == worker' # worker /\ client' = client

(* A control operation performs its status write in this step. *)
StatusWriteBy(c) == client[c].pc = "status" /\ client'[c].pc = "del"

(* A control operation ends with an error in this step. *)
FailsWithError(c) == client[c].pc \in {"get", "set"} /\ client'[c].pc = "idle"

(* Every waypoint after the first is marked reached. *)
AllReached(m) == reached[m] = 1..(mission[m].totalWaypoints - 1)

(* No control request for the mission is being handled. *)
NoRequestInFlight(m) == \A c \in Clients : client[c].m # m

(* No other mission on the same drone has been operated on. *)
DroneUndisturbed(m) ==
    \A k \in Missions \ {m} : mission[k].droneId = mission[m].droneId => issued[k] = {}

(* Jobs of the mission that wait in the queue or are being processed. *)
Jobs(m) == Cardinality({i \in 1..Len(queue) : queue[i].m = m})
           + (IF worker.pc # "idle" /\ worker.m = m THEN 1 ELSE 0)

(* -------------------------------- claims ------------------------------- *)

(* C1: a control operation writes its status only onto a mission whose       *)
(* status is one it may leave (start: PLANNED/PAUSED, pause: ACTIVE, resume: *)
(* PAUSED, abort: anything but COMPLETED/ABORTED); an operation that fails   *)
(* leaves mission rows, drones and the job queue unchanged.                  *)
C1_OnlyLegalTransitions ==
    [][\A c \in Clients :
          /\ StatusWriteBy(c) => Allowed(client[c].op, mission[client[c].m].status)
          /\ FailsWithError(c) => UNCHANGED <<mission, drone, queue, reached>>]_vars

(* C2: a mission is COMPLETED only after the worker has traversed every      *)
(* segment, so every waypoint after the first is marked reached.             *)
C2_CompletedOnlyAfterAllWaypoints ==
    \A m \in Missions : mission[m].status = "COMPLETED" => AllReached(m)

(* C3: once abortMission has returned and the mission is ABORTED, no step   *)
(* of the worker changes the mission's status or takes its drone out of     *)
(* AVAILABLE.                                                               *)
C3_AbortIsFinalForWorker ==
    [][\A m \in Missions :
          (mission[m].status = "ABORTED" /\ NoRequestInFlight(m) /\ WorkerStep) =>
              /\ mission'[m].status = "ABORTED"
              /\ (drone[mission[m].droneId].status = "AVAILABLE"
                    => drone'[mission[m].droneId].status = "AVAILABLE")]_vars

(* C4: the worker writes no drone position, battery, mission progress or     *)
(* waypoint flag for a mission whose status is ABORTED.                      *)
C4_NoStepAfterAbort ==
    [][(worker.pc \in {"position", "battery", "charging", "progress", "mark"} /\ WorkerStep)
          => mission[worker.m].status # "ABORTED"]_vars

(* C5: once pauseMission has returned and the mission is PAUSED, the worker *)
(* neither completes nor aborts it: no step of the worker changes the       *)
(* status of a PAUSED mission.                                              *)
C5_PausedStaysPaused ==
    [][\A m \in Missions :
          (mission[m].status = "PAUSED" /\ NoRequestInFlight(m) /\ WorkerStep)
              => mission'[m].status \notin {"COMPLETED", "ABORTED"}]_vars

(* C6: the persisted progress of a mission that has not been completed      *)
(* never decreases.                                                         *)
C6_ProgressMonotonic ==
    [][\A m \in Missions :
          completions[m] = 0 => FracLeq(mission[m].progress, mission'[m].progress)]_vars

(* C7: a mission completed after the worker flew its last segment has        *)
(* distanceCovered equal to the length of its path, each segment once.       *)
C7_DistanceIsPathLength ==
    [][\A m \in Missions :
          (mission[m].status # "COMPLETED" /\ mission'[m].status = "COMPLETED"
             /\ worker.idx = mission[m].totalWaypoints - 1)
          => mission'[m].distanceCovered = PathLength(mission[m].totalWaypoints)]_vars

(* C8: a mission that was started once and never paused, resumed or aborted  *)
(* ends COMPLETED with currentWaypoint = n-1, progress = 100 and its drone   *)
(* AVAILABLE.                                                                *)
C8_FinalStateOfPlainRun ==
    \A m \in Missions :
        (mission[m].status = "COMPLETED" /\ issued[m] = {"start"} /\ DroneUndisturbed(m)) =>
            /\ mission[m].currentWaypoint = mission[m].totalWaypoints - 1
            /\ mission[m].progress = Percent(100)
            /\ drone[mission[m].droneId].status = "AVAILABLE"

(* C9: the completion outcome happens at most once per mission. *)
C9_CompletedAtMostOnce ==
    \A m \in Missions : completions[m] <= 1

(* C10: startMission on a PLANNED mission goes on to its writes only when    *)
(* the mission's drone is AVAILABLE.                                         *)
C10_StartNeedsAvailableDrone ==
    [][\A c \in Clients :
          (client[c].op = "start" /\ client[c].pc = "drone" /\ client'[c].pc = "status"
             /\ mission[client[c].m].status = "PLANNED")
          => drone[mission[client[c].m].droneId].status = "AVAILABLE"]_vars

(* C11: every drone's battery is within [0, 100] percent in every reachable  *)
(* state, whatever the order in which the mission worker, the ambient        *)
(* simulator and PUT /fleet/:id read and write it.                           *)
C11_BatteryInRange ==
    \A d \in Drones : drone[d].battery >= 0 /\ drone[d].battery <= BatteryFull

(* C11, its case: the worker has drained an empty battery (set through the   *)
(* API) and written 0, while the simulator holds a recharge to 100 computed  *)
(* from an earlier read.                                                     *)
C11_Witness ==
    /\ worker.pc = "charging"
    /\ worker.newBattery = 0
    /\ drone[WDrone].battery = 0
    /\ simulator.write[WDrone].pending
    /\ simulator.write[WDrone].battery = BatteryFull

(* C12: once a worker step has left the battery of a mission's drone below   *)
(* 10 percent, the worker writes no drone position and no mission progress   *)
(* for that mission any more, and whenever a job of that mission ends the    *)
(* mission is ABORTED and its drone AVAILABLE.                               *)
C12_LowBatteryAborts ==
    [][\A m \in Missions :
          ("lowBattery" \in issued[m] /\ WorkerStep /\ worker.m = m) =>
              /\ worker.pc \notin {"position", "progress", "cstatus"}
              /\ (worker'.pc = "idle" /\ NoRequestInFlight(m)) =>
                    /\ mission'[m].status = "ABORTED"
                    /\ drone'[mission[m].droneId].status = "AVAILABLE"]_vars

(* C13: for a mission that was only ever started (no pause, resume or abort  *)
(* requested, no low battery): an attempt of its job that ends in failure    *)
(* leaves the mission ABORTED and its drone AVAILABLE, and no step of a      *)
(* later attempt (a retry of the failed job) takes the mission out of        *)
(* ABORTED.                                                                  *)
C13_FailureLeavesAborted ==
    [][(WorkerStep /\ worker.m \in Missions /\ issued[worker.m] = {"start"}
          /\ DroneUndisturbed(worker.m)) =>
          /\ (worker.call = "abortCatch" /\ worker'.pc = "idle") =>
                /\ mission'[worker.m].status = "ABORTED"
                /\ drone'[mission[worker.m].droneId].status = "AVAILABLE"
          /\ (worker.attempt > 1 /\ mission[worker.m].status = "ABORTED") =>
                mission'[worker.m].status = "ABORTED"]_vars

(* C14: at every moment a mission has at most one simulation job, waiting    *)
(* in the queue or running.                                                  *)
C14_OneJobPerMission ==
    \A m \in Missions : Jobs(m) <= 1

(* C15: a job is attempted at most 3 times, and an attempt after the first   *)
(* (the job run again after a failed attempt) changes neither the mission's  *)
(* status and progress fields nor its waypoint flags nor its drone's status: *)
(* the state is what the single run left.                                    *)
C15_RetryChangesNothing ==
    [][(WorkerStep /\ worker.m \in Missions) =>
          /\ worker.attempt <= JobAttempts
          /\ (worker.attempt > 1 /\ NoRequestInFlight(worker.m)) =>
                /\ mission'[worker.m] = mission[worker.m]
                /\ reached'[worker.m] = reached[worker.m]
                /\ drone'[mission[worker.m].droneId].status
                      = drone[mission[worker.m].droneId].status]_vars

(* C16: while the job of an ACTIVE mission A is being processed, the job of  *)
(* an ACTIVE mission B on another drone that waits at the head of the queue  *)
(* can be taken up: B's worker does not have to wait for A's worker to end.  *)
C16_WorkersDoNotBlock ==
    \A i \in 1..Len(queue) :
        (/\ worker.pc # "idle"
         /\ worker.m # queue[i].m
         /\ i = 1
         /\ mission[worker.m].status = "ACTIVE"
         /\ mission[queue[i].m].status = "ACTIVE"
         /\ mission[worker.m].droneId # mission[queue[i].m].droneId)
        => ENABLED WorkerTakeJob

(* C17: in every reachable state a mission row exists if and only if exactly *)
(* totalWaypoints waypoint rows exist for it.                                *)
C17_MissionWithItsWaypoints ==
    \A m \in Missions :
        /\ mission[m].status = "NONE" => waypoints[m] = 0
        /\ mission[m].status # "NONE" => waypoints[m] = mission[m].totalWaypoints

(* C18: createMission for a drone that does not exist or is not AVAILABLE,   *)
(* or with an empty planned path, ends with an error, and from its arrival   *)
(* to its reply it creates no mission row, no waypoint row and changes no    *)
(* drone; with a good drone and path it goes on to its writes.               *)
C18_CreateMissionRefuses ==
    [][/\ (creator.pc = "idle" /\ creator' # creator) =>
             IF drone[creator'.d].status # "AVAILABLE" \/ creator'.n = EmptyPath
             THEN /\ creator'.pc = "failed"
                  /\ creator'.error # "none"
                  /\ UNCHANGED <<mission, waypoints, reached, drone>>
             ELSE creator'.pc = "insert"
       /\ (creator.pc = "failed" /\ creator' # creator) =>
             /\ creator' = IdleCreator
             /\ UNCHANGED <<mission, waypoints, reached, drone>>]_vars

(* C18, its case: a request for a drone that is busy with a started mission  *)
(* has been refused.                                                         *)
C18_Witness ==
    /\ creator.pc = "failed"
    /\ creator.error = "Drone is not available"
    /\ drone[creator.d].status = "IN_MISSION"
    /\ \E m \in Missions : mission[m].status = "NONE"

(* C19: no reachable state lies between the two writes of start or abort:    *)
(* once start has set the drone IN_MISSION the mission is no longer PLANNED  *)
(* or PAUSED, and once abort has set the drone AVAILABLE the mission is no   *)
(* longer ACTIVE or PAUSED.                                                  *)
C19_DroneWithMissionStatus ==
    \A c \in Clients :
        client[c].pc = "status" =>
            /\ (client[c].op = "start"
                   /\ drone[mission[client[c].m].droneId].status = "IN_MISSION")
                => mission[client[c].m].status \notin {"PLANNED", "PAUSED"}
            /\ (client[c].op = "abort"
                   /\ drone[mission[client[c].m].droneId].status = "AVAILABLE")
                => mission[client[c].m].status \notin {"ACTIVE", "PAUSED"}

(* C20: the worker writes reached on a waypoint only when it is not yet      *)
(* reached, also after a pause and resume or a retried job; no step takes a  *)
(* waypoint out of the reached ones; and when the worker completes a mission *)
(* after running through its whole path, every waypoint 0..n-1 is reached.   *)
C20_ReachedOnce ==
    [][/\ (worker.pc = "mark" /\ worker' # worker) =>
             worker.idx + 1 \notin reached[worker.m]
       /\ \A m \in Missions : reached[m] \subseteq reached'[m]
       /\ (worker.pc = "cstatus" /\ worker' # worker /\ worker.idx >= worker.n - 1) =>
             reached[worker.m] = 0..(worker.n - 1)]_vars

C22_ReportOnlyWhenCompleted ==
    \A m \in Missions : report[m] # <<>> => mission[m].status = "COMPLETED"

(* Tick a = (segment, step) comes strictly before tick b. *)
TickBefore(a, b) == a[1] < b[1] \/ (a[1] = b[1] /\ a[2] < b[2])

(* The worker emits drone:position, or mission:progress, in this step. *)
EmitsPosition ==
    /\ worker' # worker
    /\ worker.pc = "charging" \/ (worker.pc = "battery" /\ worker.newBattery >= ChargeBattery)
EmitsProgress == worker' # worker /\ worker.pc = "progressDel"

(* C23: every drone:position and every mission:progress event of a mission  *)
(* is for a (segment, step) strictly after the one of the mission's previous *)
(* event of that kind, also after pause and resume and with several jobs.    *)
C23_TelemetryInOrder ==
    [][/\ EmitsPosition => TickBefore(telemetry[worker.m].position, <<worker.idx, worker.step>>)
       /\ EmitsProgress => TickBefore(telemetry[worker.m].progress, <<worker.idx, worker.step>>)]_vars

(* C24: no step of startMission, pauseMission, resumeMission or abortMission *)
(* changes the mission's progress, currentWaypoint or distanceCovered, and   *)
(* a step of pauseMission or resumeMission changes nothing in the mission,   *)
(* drone and waypoint tables but the mission's status.                       *)
C24_ControlWritesStatusOnly ==
    [][\A c \in Clients :
          (client[c].pc # "idle" /\ client'[c] # client[c]) =>
              /\ mission'[client[c].m].progress = mission[client[c].m].progress
              /\ mission'[client[c].m].currentWaypoint = mission[client[c].m].currentWaypoint
              /\ mission'[client[c].m].distanceCovered = mission[client[c].m].distanceCovered
              /\ client[c].op \in {"pause", "resume"} =>
                    /\ mission' = [mission EXCEPT ![client[c].m].status =
                                                      mission'[client[c].m].status]
                    /\ UNCHANGED <<drone, waypoints, reached>>]_vars

(* C24, its case: pauseMission has just written PAUSED over a mission whose  *)
(* worker had written progress after the handler read the mission.           *)
C24_Witness ==
    \E c \in Clients :
        /\ client[c].op = "pause" /\ client[c].pc = "del"
        /\ mission[client[c].m].status = "PAUSED"
        /\ mission[client[c].m].distanceCovered > client[c].snap.distanceCovered

(* C25: once a mission's waypoint rows exist they carry the sequence numbers *)
(* 0..n-1 in the order of the planner's output, the mission's totalWaypoints *)
(* is their number n, and no later step changes their number or numbering.   *)
C25_WaypointSequences ==
    [][/\ planner'.rows # <<>> =>
             /\ planner'.stored.totalWaypoints = Len(planner'.rows)
             /\ Len(planner'.rows) = Len(planner'.path)
             /\ \A i \in 1..Len(planner'.rows) :
                   /\ planner'.rows[i].sequence = i - 1
                   /\ planner'.rows[i].longitude = planner'.path[i][1]
                   /\ planner'.rows[i].latitude = planner'.path[i][2]
       /\ planner.rows # <<>> =>
             /\ Len(planner'.rows) = Len(planner.rows)
             /\ \A i \in 1..Len(planner.rows) :
                   planner'.rows[i].sequence = planner.rows[i].sequence]_vars

(* C25, its case: a crosshatch mission's rows exist and the worker has       *)
(* marked several of them reached.                                           *)
C25_Witness ==
    /\ planner.pc = "created"
    /\ planner.pattern = "CROSSHATCH"
    /\ Len(planner.rows) >= 4
    /\ planner.rows[3].reached
    /\ planner.rows[Len(planner.rows)].sequence = Len(planner.rows) - 1

(* C26: for a convex polygon and a spacing below its latitude extent, the    *)
(* GRID pass comes to an end (every sweep line lies above the one before),   *)
(* a sweep line adds two waypoints when it meets the polygon in two or more  *)
(* points and none otherwise, and the returned path is non-empty and of even *)
(* length.                                                                   *)
C26_GridNonEmptyEven ==
    [][(/\ planner.pc = "grid" /\ planner.pattern = "GRID" /\ planner' # planner
        /\ spacingDegrees(planner.spacing) <
              bbox(closeRing(planner.polygon)).maxLat - bbox(closeRing(planner.polygon)).minLat)
       => /\ planner'.pc = "grid" =>
                /\ planner'.currentLat > planner.currentLat
                /\ Len(planner'.waypoints) - Len(planner.waypoints) =
                      IF Len(lineIntersect(planner.currentLat, closeRing(planner.polygon))) < 2
                      THEN 0 ELSE 2
          /\ planner'.pc = "generated" =>
                Len(planner'.path) > 0 /\ Len(planner'.path) % 2 = 0]_vars

(* C27: the spacing the planner uses is altitude * 0.5 * (1 - overlap/100)   *)
(* for the overlapPercent of the request, or for 70 when the request has     *)
(* none, and that same overlapPercent is stored on the mission.              *)
C27_SpacingFromOverlap ==
    planner.pattern \in Patterns =>
        LET overlap == IF planner.overlapPercent.given
                       THEN planner.overlapPercent.value
                       ELSE DefaultOverlap
        IN  /\ 200 * planner.spacing = planner.altitude * (100 - overlap)
            /\ planner.stored # NoStored => planner.stored.overlapPercent = overlap

(* C28: a CROSSHATCH path is the grid pass followed by a second pass whose   *)
(* sweep lines have constant longitude (the two waypoints of each line share *)
(* their longitude), so the second half differs from the first.              *)
C28_CrosshatchRotated ==
    (planner.pc = "generated" /\ planner.pattern = "CROSSHATCH") =>
        LET second == SubSeq(planner.path, Len(planner.grid1) + 1, Len(planner.path))
        IN  /\ SubSeq(planner.path, 1, Len(planner.grid1)) = planner.grid1
            /\ \A k \in 1..(Len(second) \div 2) : second[2 * k - 1][1] = second[2 * k][1]
            /\ planner.grid1 # <<>> => second # planner.grid1

(* C30: every waypoint of a generated path has the altitude given to the     *)
(* planner, and every stored waypoint row has the stored mission's altitude. *)
C30_WaypointAltitude ==
    /\ \A i \in 1..Len(planner.waypoints) : planner.waypoints[i][3] = planner.altitude
    /\ \A i \in 1..Len(planner.path) : planner.path[i][3] = planner.altitude
    /\ \A i \in 1..Len(planner.rows) : planner.rows[i].altitude = planner.stored.altitude

(* C30, its cases: rows stored for a perimeter path, and for a crosshatch    *)
(* path with both passes.                                                    *)
C30_Witness ==
    /\ planner.pc = "created"
    /\ planner.pattern \in {"PERIMETER", "CROSSHATCH"}
    /\ Len(planner.rows) >= 4
    /\ planner.stored.altitude = SetMax(Altitudes)
    /\ planner.rows[Len(planner.rows)].altitude = SetMax(Altitudes)

(* C29: interpolatePosition returns exactly from at progress 0 and exactly   *)
(* to at progress 1, and for every progress in [0, 1] each coordinate of the *)
(* result lies between the coordinates of from and to.                       *)
C29_InterpolateEndpoints ==
    planner.pc = "interpolated" =>
        /\ planner.progress = <<0, 1>> => planner.position = planner.from
        /\ planner.progress = <<1, 1>> => planner.position = planner.to
        /\ \A i \in 1..3 :
              /\ planner.position[i] >= SetMin({planner.from[i], planner.to[i]})
              /\ planner.position[i] <= SetMax({planner.from[i], planner.to[i]})

(* C34: COMPLETED and ABORTED are terminal: once a mission is COMPLETED or   *)
(* ABORTED, no step changes its status, progress or end time again.          *)
C34_FinishedIsTerminal ==
    [][\A m \in Missions :
          mission[m].status \in {"COMPLETED", "ABORTED"}
              => /\ mission'[m].status = mission[m].status
                 /\ mission'[m].progress = mission[m].progress
                 /\ mission'[m].ended = mission[m].ended]_vars

(* C35: at most one mission per drone is ACTIVE or PAUSED at any time.       *)
C35_OneLiveMissionPerDrone ==
    \A m \in Missions, k \in Missions :
        /\ m # k
        /\ mission[m].status \in {"ACTIVE", "PAUSED"}
        /\ mission[k].status \in {"ACTIVE", "PAUSED"}
        => mission[m].droneId # mission[k].droneId

(* C36: whenever a mission is ACTIVE, its drone's status is IN_MISSION       *)
(* (looked at while no request for the mission is being handled and no job   *)
(* of it is being processed, so that no operation on it is half done).       *)
C36_ActiveDroneInMission ==
    \A m \in Missions :
        /\ mission[m].status = "ACTIVE"
        /\ NoRequestInFlight(m)
        /\ ~(worker.pc # "idle" /\ worker.m = m)
        => drone[mission[m].droneId].status = "IN_MISSION"

(* C37: the mission cache never holds a stale status for a later transition  *)
(* check: once the operations on a mission have returned (no request for it  *)
(* is being handled, no job of it is being processed), a cached mission has  *)
(* the status of the database row, which is what getMissionById returns.     *)
C37_CacheNotStale ==
    \A m \in Missions :
        /\ cache[m] # NoSnap
        /\ NoRequestInFlight(m)
        /\ ~(worker.pc # "idle" /\ worker.m = m)
        => cache[m].status = mission[m].status

(* C40: the ambient simulator never writes the position or battery of a      *)
(* drone whose status is IN_MISSION at the time of the write.                *)
C40_SimulatorSparesMissionDrones ==
    [][\A d \in Drones :
          (simulator.write[d].pending /\ ~simulator'.write[d].pending)
              => drone[d].status # "IN_MISSION"]_vars

(* C33: path generation terminates for every accepted input: each turn of   *)
(* the GRID sweep loop (in GRID and in both passes of CROSSHATCH) moves the  *)
(* current latitude up by a strictly positive step, also for overlapPercent  *)
(* 100.                                                                      *)
C33_SweepAdvances ==
    [][(planner.pc = "grid" /\ planner'.pc = "grid" /\ planner'.pass = planner.pass
            /\ planner' # planner)
        => planner'.currentLat > planner.currentLat]_vars

(* A waypoint pair of a sweep line runs west to east. *)
Eastward(a, b) == b[1] > a[1]

(* C32: in the GRID pattern consecutive emitted sweep lines are traversed in *)
(* opposite directions, so the end of one line and the start of the next lie *)
(* on the same side of the polygon, also when a sweep line was skipped.      *)
C32_Boustrophedon ==
    planner.pattern = "GRID" =>
        \A k \in 1..((Len(planner.waypoints) \div 2) - 1) :
            Eastward(planner.waypoints[2 * k - 1], planner.waypoints[2 * k])
                # Eastward(planner.waypoints[2 * k + 1], planner.waypoints[2 * k + 2])

(* C38: a mission's startTime is set on its first successful start and never *)
(* changes afterwards.                                                       *)
C38_StartTimeSetOnce ==
    [][\A m \in Missions :
          mission[m].startTime # 0 => mission'[m].startTime = mission[m].startTime]_vars

(* C31: under fair scheduling of the queue and the worker, a mission that   *)
(* becomes ACTIVE does not stay ACTIVE forever: it leaves ACTIVE sooner or   *)
(* later, also when the job could not be queued and when the worker's        *)
(* recovery abort throws.                                                    *)
C31_ActiveEnds ==
    \A m \in Missions : (mission[m].status = "ACTIVE") ~> (mission[m].status # "ACTIVE")

====
